---- MODULE Spec2Model ----
(***************************************************************************)
(* A model of the two registry modules of the repository:                  *)
(*   winregistry  (WinRegistry client, parse_path, get_access_key)         *)
(*   cygwinreg    (PyHKEY handles, the winreg-style wrappers, the value    *)
(*                 codec py_to_reg / reg_to_py)                            *)
(*                                                                         *)
(* A path text is modelled by the sequence of its separator-delimited      *)
(* tokens: "HKLM\A\B" is <<"HKLM","A","B">>, "HKLM\" is <<"HKLM","">>,     *)
(* "HKLM" is <<"HKLM">> and the empty text is <<"">>.  Texts and non-empty *)
(* token sequences correspond one to one, so str.split("\\") is the        *)
(* sequence itself and "\\".join is Join below.                            *)
(***************************************************************************)
EXTENDS Integers, Sequences, FiniteSets, TLC

(***************************************************************************)
(* Bounds of the model.                                                    *)
(***************************************************************************)
MaxStrLen == 2
MaxListLen == 3
MaxDepth == 3
MaxOps == 2
MaxCloses == 1
MaxFaults == 1
MaxCalls == 5

(***************************************************************************)
(* Generic helpers.                                                        *)
(***************************************************************************)
SeqsUpTo(S, n) == UNION {[1..k -> S] : k \in 0..n}

Take(s, n) == SubSeq(s, 1, n)

Drop(s, n) == SubSeq(s, n + 1, Len(s))


(***************************************************************************)
(* Python values handed to and returned by the codec.  One record shape    *)
(* for all kinds: n is the integer, u the code units (or the bytes) and l  *)
(* the elements of a list.  A non-negative integer is the sequence of its  *)
(* 16-bit limbs, least significant first and without leading zero limbs    *)
(* (0 is <<>>, 2^32-1 is <<65535, 65535>>), so that 32-bit and 64-bit      *)
(* values stay within the checker's integers.                              *)
(***************************************************************************)
PyNone == [k |-> "none", n |-> <<>>, u |-> <<>>, l |-> <<>>]

PyInt(n) == [k |-> "int", n |-> n, u |-> <<>>, l |-> <<>>]

PyStr(u) == [k |-> "unicode", n |-> <<>>, u |-> u, l |-> <<>>]

PyBytes(b) == [k |-> "bytes", n |-> <<>>, u |-> b, l |-> <<>>]

PyList(l) == [k |-> "list", n |-> <<>>, u |-> <<>>, l |-> l]

\* isinstance(value, basestring): Python 2 str and unicode
IsBaseString(v) == v.k \in {"unicode", "bytes"}

\* hasattr(value, '__iter__'): in Python 2 lists have it, strings, ints and None do not
HasIter(v) == v.k = "list"

(***************************************************************************)
(* Registry value types (cygwinreg.constants, the Win32 codes).            *)
(***************************************************************************)
REG_SZ == "REG_SZ"
REG_EXPAND_SZ == "REG_EXPAND_SZ"
REG_BINARY == "REG_BINARY"
REG_DWORD == "REG_DWORD"
REG_MULTI_SZ == "REG_MULTI_SZ"

ValueTypes == {REG_SZ, REG_EXPAND_SZ, REG_BINARY, REG_DWORD, REG_MULTI_SZ}

(***************************************************************************)
(* UTF-16-LE.  A string is a sequence of 16-bit code units.                *)
(***************************************************************************)
UnitBytes(c) == <<c % 256, c \div 256>>

\* basestring.encode('utf-16-le')
RECURSIVE utf16(_)
utf16(u) == IF u = <<>> THEN <<>> ELSE UnitBytes(Head(u)) \o utf16(Tail(u))

\* bytes.decode('utf-16-le') of an even-length buffer
RECURSIVE DecodeUnits(_)
DecodeUnits(b) == IF Len(b) < 2 THEN <<>> ELSE <<b[1] + 256 * b[2]>> \o DecodeUnits(Drop(b, 2))

\* bytes.decode('utf-16-le'): a truncated (odd-length) buffer is a UnicodeDecodeError
Utf16Decode(b) ==
    IF Len(b) % 2 = 1
    THEN [ok |-> FALSE, err |-> "UnicodeDecodeError", val |-> PyNone]
    ELSE [ok |-> TRUE, err |-> "", val |-> PyStr(DecodeUnits(b))]

\* an integer without its leading zero limbs
RECURSIVE NormInt(_)
NormInt(n) == IF n # <<>> /\ n[Len(n)] = 0 THEN NormInt(Take(n, Len(n) - 1)) ELSE n

\* whether the integer fits an unsigned long of size bytes
FitsL(n, size) == 2 * Len(NormInt(n)) <= size

\* struct.pack('L', n): the size bytes of n, little-endian (native order of the x86 hosts)
PackL(n, size) == [i \in 1..size |->
                     LET limb == IF (i + 1) \div 2 <= Len(n) THEN n[(i + 1) \div 2] ELSE 0
                     IN  IF i % 2 = 1 THEN limb % 256 ELSE limb \div 256]

\* struct.unpack_from('L', buf)[0]: the integer of the first size bytes
UnpackL(b, size) == NormInt([j \in 1..(size \div 2) |-> b[2 * j - 1] + 256 * b[2 * j]])

(***************************************************************************)
(* py_to_reg: a Python value to registry bytes.                            *)
(***************************************************************************)
EncOk(b) == [ok |-> TRUE, err |-> "", buf |-> b]

EncErr(e) == [ok |-> FALSE, err |-> e, buf |-> <<>>]

\* create_string_buffer(init): one item larger than init, the last one NUL
StringBufferOf(init) == init \o <<0>>

\* '\x00\x00'.join(result)
RECURSIVE JoinNul(_)
JoinNul(parts) ==
    IF parts = <<>> THEN <<>>
    ELSE IF Len(parts) = 1 THEN parts[1]
    ELSE parts[1] \o <<0, 0>> \o JoinNul(Tail(parts))

py_to_reg_DWORD(value, ulong) ==
    IF value.k = "none" THEN EncOk(PackL(<<>>, ulong))
    ELSE IF value.k # "int" \/ ~FitsL(value.n, ulong)
         THEN EncErr("struct.error")
         ELSE EncOk(PackL(value.n, ulong))

py_to_reg_SZ(value) ==
    IF ~IsBaseString(value) THEN EncErr("ValueError")
    ELSE EncOk(StringBufferOf(utf16(value.u)))

py_to_reg_MULTI_SZ(value) ==
    IF ~HasIter(value) THEN EncErr("ValueError")
    ELSE IF \E i \in 1..Len(value.l) : ~IsBaseString(value.l[i]) THEN EncErr("ValueError")
    ELSE EncOk(JoinNul([i \in 1..Len(value.l) + 1 |->
                           IF i <= Len(value.l) THEN utf16(value.l[i].u) ELSE utf16(<<>>)]))

py_to_reg_BINARY(value) ==
    IF value.k = "bytes" THEN EncOk(value.u) ELSE EncErr("TypeError")

py_to_reg(value, typ, ulong) ==
    IF typ = REG_DWORD THEN py_to_reg_DWORD(value, ulong)
    ELSE IF typ \in {REG_SZ, REG_EXPAND_SZ} THEN py_to_reg_SZ(value)
    ELSE IF typ = REG_MULTI_SZ THEN py_to_reg_MULTI_SZ(value)
    ELSE py_to_reg_BINARY(value)

(***************************************************************************)
(* reg_to_py: registry bytes to a Python value.                            *)
(***************************************************************************)
DecOk(v) == [ok |-> TRUE, err |-> "", val |-> v]

DecErr(e) == [ok |-> FALSE, err |-> e, val |-> PyNone]

\* UTF16LE_NULL = re.compile(r'(?<![\x01-\x7f])\x00\x00') matching at position p
UTF16LE_NULL(b, p) ==
    /\ p + 1 <= Len(b)
    /\ b[p] = 0
    /\ b[p + 1] = 0
    /\ (p = 1 \/ b[p - 1] \notin 1..127)

\* the leftmost match at or after position from, 0 when there is none
FirstMatch(b, from) ==
    LET ps == {p \in from..Len(b) : UTF16LE_NULL(b, p)}
    IN  IF ps = {} THEN 0 ELSE CHOOSE p \in ps : \A q \in ps : p <= q

\* UTF16LE_NULL.split(buf): every piece between successive matches
RECURSIVE SplitAll(_, _)
SplitAll(b, from) ==
    LET p == FirstMatch(b, from)
    IN  IF p = 0 THEN <<SubSeq(b, from, Len(b))>>
        ELSE <<SubSeq(b, from, p - 1)>> \o SplitAll(b, p + 2)

\* UTF16LE_NULL.split(buf, 1)[0]
SplitFirst(b) ==
    LET p == FirstMatch(b, 1)
    IN  IF p = 0 THEN b ELSE SubSeq(b, 1, p - 1)

\* if data_size % 2: data_size -= 1;  buf = data_buf.raw[:data_size]
EvenPrefix(b, data_size) ==
    LET size == IF data_size % 2 = 1 THEN data_size - 1 ELSE data_size
    IN  IF Len(b) > size THEN Take(b, size) ELSE b

reg_to_py_DWORD(b, data_size, ulong) ==
    IF data_size = 0 THEN DecOk(PyInt(<<>>))
    ELSE IF Len(b) < ulong THEN DecErr("struct.error")
    ELSE DecOk(PyInt(UnpackL(b, ulong)))

reg_to_py_SZ(b, data_size) == Utf16Decode(SplitFirst(EvenPrefix(b, data_size)))

\* for s in split: if s == "": break; result.append(s.decode('utf-16-le'))
RECURSIVE DecodePieces(_)
DecodePieces(pieces) ==
    IF pieces = <<>> \/ Head(pieces) = <<>> THEN DecOk(PyList(<<>>))
    ELSE LET d == Utf16Decode(Head(pieces))
             r == DecodePieces(Tail(pieces))
         IN  IF ~d.ok THEN DecErr(d.err)
             ELSE IF ~r.ok THEN r
             ELSE DecOk(PyList(<<d.val>> \o r.val.l))

reg_to_py_MULTI_SZ(b, data_size) == DecodePieces(SplitAll(EvenPrefix(b, data_size), 1))

reg_to_py_BINARY(b, data_size) ==
    IF data_size = 0 THEN DecOk(PyNone) ELSE DecOk(PyBytes(Take(b, data_size)))

reg_to_py(b, data_size, typ, ulong) ==
    IF typ = REG_DWORD THEN reg_to_py_DWORD(b, data_size, ulong)
    ELSE IF typ \in {REG_SZ, REG_EXPAND_SZ} THEN reg_to_py_SZ(b, data_size)
    ELSE IF typ = REG_MULTI_SZ THEN reg_to_py_MULTI_SZ(b, data_size)
    ELSE reg_to_py_BINARY(b, data_size)


(***************************************************************************)
(* Path texts.                                                             *)
(***************************************************************************)
\* "\\".join(tokens): the join of no token is the empty text
Join(tokens) == IF tokens = <<>> THEN <<"">> ELSE tokens

\* text.split("\\", maxsplit=1): the list of the pieces
SplitOnce(text) == IF Len(text) = 1 THEN <<text>> ELSE <<<<text[1]>>, Tail(text)>>

\* text.rsplit(sep="\\", maxsplit=1): the list of the pieces
RSplitOnce(text) == IF Len(text) = 1 THEN <<text>> ELSE <<Take(text, Len(text) - 1), <<text[Len(text)]>>>>

\* str.upper() on the root tokens of the model
Upper(tok) == CASE tok = "hklm" -> "HKLM" [] tok = "hkcu" -> "HKCU" [] OTHER -> tok

\* winregistry.consts.ShortRootAlias: short alias -> canonical root name
ShortRootAlias == [HKLM |-> "HKEY_LOCAL_MACHINE", HKCU |-> "HKEY_CURRENT_USER"]

expand_short_root(root) == IF root \in DOMAIN ShortRootAlias THEN ShortRootAlias[root] ELSE root

\* the predefined root handles that are attributes of winreg: getattr(winreg, _root)
WinregRoots == {"HKEY_LOCAL_MACHINE", "HKEY_CURRENT_USER"}

ParseErr(e) == [ok |-> FALSE, err |-> e, root |-> "", key_path |-> <<>>]

parse_path(path) ==
    LET parts == SplitOnce(path)
    IN  IF Len(parts) # 2 THEN ParseErr("ValueError")
        ELSE LET _root == expand_short_root(Upper(parts[1][1]))
                 key_path == parts[2]
             IN  IF _root \notin WinregRoots THEN ParseErr("AttributeError")
                 ELSE IF key_path = <<"">> THEN ParseErr("ValueError")
                 ELSE [ok |-> TRUE, err |-> "", root |-> _root, key_path |-> key_path]

(***************************************************************************)
(* Access masks: a mask is the set of its flags, bitwise-or is union.      *)
(***************************************************************************)
KEY_READ == {"KEY_READ"}
KEY_WRITE == {"KEY_WRITE"}
KEY_SET_VALUE == {"KEY_SET_VALUE"}
KEY_WOW64_32KEY == {"KEY_WOW64_32KEY"}
KEY_WOW64_64KEY == {"KEY_WOW64_64KEY"}

get_access_key(access, key_wow64_32key) ==
    LET x64_key == IF key_wow64_32key THEN KEY_WOW64_32KEY ELSE KEY_WOW64_64KEY
    IN  access \cup x64_key

(***************************************************************************)
(* The store behind the winreg calls: the set of the existing keys, each   *)
(* the sequence <<root name, segment, ..., segment>>, and the values under *)
(* them.  The predefined roots always exist.                               *)
(***************************************************************************)
\* the order in which the store enumerates subkey names
NameOrder == <<"A", "B">>

Names == {NameOrder[i] : i \in 1..Len(NameOrder)}

\* a variant that takes the empty sub key for a name of its own
ResolveAppending(base, sub_key) == base \o sub_key

\* the key a sub_key text names relative to an open key: the empty text is the key itself
Resolve(base, sub_key) == IF sub_key = <<"">> THEN base ELSE base \o sub_key

\* a variant in which every key can be opened
KeyExistsAlways(st, key) == TRUE

KeyExists(st, key) == Len(key) = 1 \/ key \in st

ChildNames(st, key) == {n \in Names : key \o <<n>> \in st}

\* RegEnumKeyExW: the subkeys by their index in the store as it is now
RECURSIVE EnumList(_, _, _)
EnumList(st, key, i) ==
    IF i > Len(NameOrder) THEN <<>>
    ELSE (IF key \o <<NameOrder[i]>> \in st THEN <<NameOrder[i]>> ELSE <<>>) \o EnumList(st, key, i + 1)

\* RegCreateKeyW: the key and every missing key on the way to it
CreateChain(st, base, key) == st \cup {Take(key, n) : n \in (Len(base) + 1)..Len(key)}


(***************************************************************************)
(* State.                                                                  *)
(*   store, values   the registry behind the winreg calls                  *)
(*   objs            every handle object made so far (PyHKEY), by id:      *)
(*                   kind, the key it was opened on, and hkey              *)
(*   client, root_   WinRegistry._client and WinRegistry._root             *)
(*   pc              the position of the running operation, "idle" between *)
(*                   two operations                                        *)
(*   cur             the running (or last) public operation and arguments  *)
(*   gh              the arguments of the running _get_handler call and    *)
(*                   the position it returns to                            *)
(*   hres            the handle _get_handler returned                      *)
(*   ck, rk, stack   the locals of create_key, of read_key and the frames  *)
(*                   of delete_key_tree                                    *)
(*   log             the winreg calls of the running (or last) operation   *)
(*   result, ret     how the last operation ended and what it returned     *)
(*   hist            the operations completed so far                       *)
(*   cv .. ctail     the codec under test: value, type, width of an        *)
(*                   unsigned long, encoded buffer, decoded value          *)
(*   ptext .. pphase parse_path under test: the text, what it returned     *)
(*   peer            the fields and locals of a second WinRegistry instance *)
(*                   while the first one runs, and the other way round     *)
(***************************************************************************)
VARIABLES store, values, objs, client, root_, pc, cur, gh, hres, ck, rk, stack,
          log, result, ret, hist, faults, cv, ct, ulong, cenc, cdec, cphase, ctail,
          ptext, pres, pphase, peer

regVars == <<store, values, objs, client, root_, pc, cur, gh, hres, ck, rk, stack,
             log, result, ret, hist, faults>>

codecVars == <<cv, ct, cenc, cdec, cphase, ctail>>

pathVars == <<ptext, pres, pphase>>

vars == <<regVars, codecVars, pathVars, ulong, peer>>

\* PyHKEY.hkey of a closed handle
Closed == 0

\* None, where a handle object is expected
NoObj == 0

LM == "HKEY_LOCAL_MACHINE"

CU == "HKEY_CURRENT_USER"

\* a variant in which a handle object is true whatever its value
TruthyIfNotNone(o) == o # NoObj

\* PyHKEY.__nonzero__ (and the truth of None)
Truthy(o) == o # NoObj /\ objs[o].val # Closed

HandleObj(kind, key, id) == [kind |-> kind, key |-> key, val |-> id]

Ev(call, on, key, idx, access, res, out) ==
    [call |-> call, on |-> on, key |-> key, idx |-> idx, access |-> access, res |-> res, out |-> out]

GhNone == [key |-> <<>>, access |-> {}, ret |-> ""]

CkNone == [i |-> 0, handler |-> NoObj]

RkNone == [keys_num |-> 0, values_num |-> 0, key_i |-> 0, keys |-> <<>>, entries |-> <<>>]

CurNone == [op |-> "", key |-> <<>>, view |-> FALSE, name |-> "", val |-> PyNone, typ |-> REG_SZ,
            store |-> {}]

Connects(l) == Cardinality({i \in 1..Len(l) : l[i].call = "ConnectRegistry"})

\* whether the store may deny the next call
DenyChoices == IF faults < MaxFaults THEN {FALSE, TRUE} ELSE {FALSE}

\* the operation goes on at position to
Continue(to, log2) ==
    /\ pc' = to
    /\ log' = log2
    /\ result' = "running"
    /\ ret' = ret
    /\ hist' = hist

\* a variant in which a delete_key_tree frame that has a caller swallows the
\* exception and returns to the caller's loop
FinishSwallowing(res, value, log2, store2) ==
    IF res # "ok" /\ Len(stack) > 1
    THEN /\ Continue("dkt_loop", log2)
         /\ stack' = Take(stack, Len(stack) - 1)
         /\ hres' = NoObj
         /\ UNCHANGED <<gh, ck, rk>>
    ELSE /\ pc' = "idle"
         /\ result' = res
         /\ ret' = value
         /\ log' = log2
         /\ hist' = Append(hist, [op |-> cur.op, key |-> cur.key, view |-> cur.view, res |-> res,
                                  connects |-> Connects(log2), store |-> store2])
         /\ gh' = GhNone
         /\ hres' = NoObj
         /\ ck' = CkNone
         /\ rk' = RkNone
         /\ stack' = <<>>

(***************************************************************************)
(* The end of a public operation: by return or by an exception that leaves *)
(* it.  The locals of all its frames are dropped.                          *)
(***************************************************************************)
Finish(res, value, log2, store2) ==
    /\ pc' = "idle"
    /\ result' = res
    /\ ret' = value
    /\ log' = log2
    /\ hist' = Append(hist, [op |-> cur.op, key |-> cur.key, view |-> cur.view, res |-> res,
                             connects |-> Connects(log2), store |-> store2])
    /\ gh' = GhNone
    /\ hres' = NoObj
    /\ ck' = CkNone
    /\ rk' = RkNone
    /\ stack' = <<>>

\* what an operation returns: the snapshot of read_key or the entry of read_entry
Ret(keys, entries, value, typ) == [keys |-> keys, entries |-> entries, value |-> value, typ |-> typ]

NoValue == Ret(<<>>, <<>>, PyNone, "")

\* a WinRegistry instance as __init__ leaves it, set aside: no connection, no
\* operation running
PeerNone == [id |-> 2, pc |-> "idle", client |-> NoObj, cur |-> CurNone, gh |-> GhNone,
             hres |-> NoObj, ck |-> CkNone, log |-> <<>>, result |-> "none", ret |-> NoValue]

Ops == Cardinality({i \in 1..Len(hist) : hist[i].op # "close"})

Closes == Cardinality({i \in 1..Len(hist) : hist[i].op = "close"})

\* a public operation starts: its arguments, and the store as it is then
Enter(op, key, view, name, val, typ) ==
    /\ pc = "idle"
    /\ Ops < MaxOps
    /\ cur' = [op |-> op, key |-> key, view |-> view, name |-> name, val |-> val, typ |-> typ,
                store |-> store]

\* self._get_handler(key, access, key_wow64_32key), returning to position to
CallGetHandler(key, access, to) ==
    /\ gh' = [key |-> key, access |-> access, ret |-> to]
    /\ pc' = "_get_handler"

(***************************************************************************)
(* Inputs.                                                                 *)
(***************************************************************************)

\* the keys below A, to MaxDepth segments, and the two keys next to the roots
RelPaths == {p \in SeqsUpTo(Names, MaxDepth) : p # <<>> /\ (Len(p) > 1 => p[1] = "A")}

KeyTexts == {<<"HKLM">> \o p : p \in RelPaths} \cup {<<"hkcu", "A">>}

\* the keys of the operations on values
EntryKeyTexts == {<<"HKLM", "A">>, <<"HKLM", "A", "B">>, <<"hkcu", "A">>}

ValueNames == {"v"}

WriteInputs == {[typ |-> REG_DWORD, val |-> PyInt(<<1>>)],
                [typ |-> REG_SZ, val |-> PyNone]}

InitStores == {{<<LM, "A">>, <<CU, "A">>},
               {<<LM, "A">>, <<LM, "A", "A">>, <<LM, "A", "A", "A">>,
                <<LM, "A", "B">>, <<LM, "A", "B", "A">>, <<LM, "A", "B", "B">>, <<CU, "A">>}}

InitValues == {[key |-> <<LM, "A">>, name |-> "v", typ |-> REG_SZ, data |-> <<65, 0, 0, 0>>]}


\* the values of a key in the order the store enumerates them
ValueOrder == <<"v">>

RECURSIVE ValueList(_, _, _)
ValueList(vals, key, i) ==
    IF i > Len(ValueOrder) THEN <<>>
    ELSE LET es == {e \in vals : e.key = key /\ e.name = ValueOrder[i]}
         IN  (IF es = {} THEN <<>> ELSE <<CHOOSE e \in es : TRUE>>) \o ValueList(vals, key, i + 1)

(***************************************************************************)
(* PyHKEY.Close: RegCloseKey(self.hkey), then self.hkey = 0.  The call is  *)
(* made whatever hkey is; on a closed handle the OS refuses it and the     *)
(* error is raised.                                                        *)
(***************************************************************************)
CloseResult(o) == IF objs[o].val = Closed THEN "InvalidHandle" ELSE "ok"

ObjsAfterClose(os, o) == IF os[o].val = Closed THEN os ELSE [os EXCEPT ![o].val = Closed]

CloseEv(o) == Ev("Close", o, objs[o].key, 0, {}, CloseResult(o), NoObj)

(***************************************************************************)
(* WinRegistry._get_handler: parse_path, get_access_key, ConnectRegistry   *)
(* when no connection is cached or the root differs from self._root.       *)
(***************************************************************************)
\* a variant that connects only when no connection object is cached
NeedsConnectWhenNone(root) == client = NoObj

\* a variant that connects only when no open connection is cached
NeedsConnectWhenClosed(root) == ~Truthy(client)

\* line 43: if not self._client or root != self._root
NeedsConnect(root) == ~Truthy(client) \/ root # root_

get_handler ==
    /\ pc = "_get_handler"
    /\ UNCHANGED <<store, values, root_, cur, faults>>
    /\ LET p == parse_path(gh.key)
           id == Len(objs) + 1
       IN  IF ~p.ok
           THEN /\ Finish(p.err, NoValue, log, store)
                /\ UNCHANGED <<objs, client>>
           ELSE IF NeedsConnect(p.root)
           THEN /\ objs' = Append(objs, HandleObj("conn", <<p.root>>, id))
                /\ client' = id
                /\ Continue("OpenKey", Append(log, Ev("ConnectRegistry", NoObj,
                                                      <<p.root>>, 0, {}, "ok", id)))
                /\ UNCHANGED <<gh, hres, ck, rk, stack>>
           ELSE /\ Continue("OpenKey", log)
                /\ UNCHANGED <<objs, client, gh, hres, ck, rk, stack>>
    /\ UNCHANGED <<codecVars, pathVars, ulong, peer>>

(***************************************************************************)
(* OpenKey(key=self._client, sub_key=path, access=access_key), the last    *)
(* call of _get_handler.  In create_key a FileNotFoundError is caught and  *)
(* the loop goes on with the next shorter prefix.                          *)
(***************************************************************************)
\* create_key, line 141: while i < len(sub_keys) and not handler
CreateKeyLoops(i, handler) == i < Len(cur.key) /\ ~Truthy(handler)

\* create_key, line 143: "\\".join(sub_keys[: len(sub_keys) - i])
CreateKeyCurrent(i) == Join(Take(cur.key, Len(cur.key) - i))

OpenKey ==
    /\ pc = "OpenKey"
    /\ UNCHANGED <<store, values, root_, cur, client>>
    /\ LET p == parse_path(gh.key)
           key == Resolve(objs[client].key, p.key_path)
           access_key == get_access_key(gh.access, cur.view)
           id == Len(objs) + 1
           ev(res, out) == Ev("OpenKey", client, key, 0, access_key, res, out)
       IN  \E deny \in DenyChoices :
              IF deny
              THEN /\ Finish("AccessDenied", NoValue, Append(log, ev("AccessDenied", NoObj)), store)
                   /\ faults' = faults + 1
                   /\ UNCHANGED objs
              ELSE IF ~KeyExists(store, key)
              THEN /\ UNCHANGED <<objs, faults>>
                   /\ IF gh.ret = "create_key"
                      THEN /\ Continue(IF CreateKeyLoops(ck.i + 1, ck.handler)
                                       THEN "_get_handler" ELSE "CreateKeyEx",
                                       Append(log, ev("NotFound", NoObj)))
                           /\ ck' = [ck EXCEPT !.i = ck.i + 1]
                           /\ gh' = IF CreateKeyLoops(ck.i + 1, ck.handler)
                                    THEN [gh EXCEPT !.key = CreateKeyCurrent(ck.i + 1)]
                                    ELSE GhNone
                           /\ UNCHANGED <<hres, rk, stack>>
                      ELSE Finish("NotFound", NoValue, Append(log, ev("NotFound", NoObj)), store)
              ELSE /\ objs' = Append(objs, HandleObj("node", key, id))
                   /\ faults' = faults
                   /\ IF gh.ret = "create_key"
                      THEN /\ Continue("CreateKeyEx", Append(log, ev("ok", id)))
                           /\ ck' = [ck EXCEPT !.handler = id]
                           /\ gh' = GhNone
                           /\ UNCHANGED <<hres, rk, stack>>
                      ELSE /\ Continue(gh.ret, Append(log, ev("ok", id)))
                           /\ hres' = id
                           /\ gh' = GhNone
                           /\ UNCHANGED <<ck, rk, stack>>
    /\ UNCHANGED <<codecVars, pathVars, ulong, peer>>


(***************************************************************************)
(* read_entry, write_entry, delete_entry.                                  *)
(***************************************************************************)
read_entry(reg_key, name) ==
    /\ Enter("read_entry", reg_key, FALSE, name, PyNone, REG_SZ)
    /\ CallGetHandler(reg_key, KEY_READ, "QueryValueEx")
    /\ log' = <<>> /\ result' = "running" /\ ret' = NoValue
    /\ UNCHANGED <<store, values, objs, client, root_, hres, ck, rk, stack, hist, faults>>
    /\ UNCHANGED <<codecVars, pathVars, ulong, peer>>

\* QueryValueEx(handle, name): the value decoded by reg_to_py, and its type
QueryValueEx ==
    /\ pc = "QueryValueEx"
    /\ UNCHANGED <<store, values, root_, cur, client, objs>>
    /\ LET key == objs[hres].key
           es == {e \in values : e.key = key /\ e.name = cur.name}
           ev(res) == Ev("QueryValueEx", hres, <<cur.name>>, 0, {}, res, NoObj)
       IN  /\ faults' = faults
           /\ IF es = {}
              THEN Finish("NotFound", NoValue, Append(log, ev("NotFound")), store)
              ELSE LET e == CHOOSE x \in es : TRUE
                       d == reg_to_py(e.data, Len(e.data), e.typ, ulong)
                   IN  IF d.ok
                       THEN Finish("ok", Ret(<<>>, <<>>, d.val, e.typ), Append(log, ev("ok")), store)
                       ELSE Finish(d.err, NoValue, Append(log, ev("ok")), store)
    /\ UNCHANGED <<codecVars, pathVars, ulong, peer>>

write_entry(reg_key, name, value, reg_type) ==
    /\ Enter("write_entry", reg_key, FALSE, name, value, reg_type)
    /\ CallGetHandler(reg_key, KEY_SET_VALUE, "SetValueEx")
    /\ log' = <<>> /\ result' = "running" /\ ret' = NoValue
    /\ UNCHANGED <<store, values, objs, client, root_, hres, ck, rk, stack, hist, faults>>
    /\ UNCHANGED <<codecVars, pathVars, ulong, peer>>

\* SetValueEx(handle, name, 0, reg_type.value, value): py_to_reg, then RegSetValueExW
SetValueEx ==
    /\ pc = "SetValueEx"
    /\ UNCHANGED <<store, root_, cur, client, objs>>
    /\ LET key == objs[hres].key
           buf == py_to_reg(cur.val, cur.typ, ulong)
           ev(res) == Ev("SetValueEx", hres, <<cur.name>>, 0, {}, res, NoObj)
       IN  IF ~buf.ok
           THEN /\ Finish(buf.err, NoValue, log, store)
                /\ UNCHANGED <<values, faults>>
           ELSE \E deny \in DenyChoices :
                   IF deny
                   THEN /\ Finish("AccessDenied", NoValue, Append(log, ev("AccessDenied")), store)
                        /\ faults' = faults + 1
                        /\ UNCHANGED values
                   ELSE /\ values' = {e \in values : ~(e.key = key /\ e.name = cur.name)}
                                       \cup {[key |-> key, name |-> cur.name, typ |-> cur.typ,
                                              data |-> buf.buf]}
                        /\ faults' = faults
                        /\ Finish("ok", NoValue, Append(log, ev("ok")), store)
    /\ UNCHANGED <<codecVars, pathVars, ulong, peer>>

delete_entry(key, name) ==
    /\ Enter("delete_entry", key, FALSE, name, PyNone, REG_SZ)
    /\ CallGetHandler(key, KEY_SET_VALUE, "DeleteValue")
    /\ log' = <<>> /\ result' = "running" /\ ret' = NoValue
    /\ UNCHANGED <<store, values, objs, client, root_, hres, ck, rk, stack, hist, faults>>
    /\ UNCHANGED <<codecVars, pathVars, ulong, peer>>

\* DeleteValue(handle, name)
DeleteValue ==
    /\ pc = "DeleteValue"
    /\ UNCHANGED <<store, root_, cur, client, objs>>
    /\ LET key == objs[hres].key
           es == {e \in values : e.key = key /\ e.name = cur.name}
           ev(res) == Ev("DeleteValue", hres, <<cur.name>>, 0, {}, res, NoObj)
       IN  /\ faults' = faults
           /\ IF es = {}
              THEN /\ Finish("NotFound", NoValue, Append(log, ev("NotFound")), store)
                   /\ UNCHANGED values
              ELSE /\ values' = values \ es
                   /\ Finish("ok", NoValue, Append(log, ev("ok")), store)
    /\ UNCHANGED <<codecVars, pathVars, ulong, peer>>

(***************************************************************************)
(* read_key: QueryInfoKey, then EnumKey at 0..keys_num-1, then EnumValue   *)
(* at 0..values_num-1.                                                     *)
(***************************************************************************)
read_key(name) ==
    /\ Enter("read_key", name, FALSE, "", PyNone, REG_SZ)
    /\ CallGetHandler(name, KEY_READ, "rk_QueryInfoKey")
    /\ log' = <<>> /\ result' = "running" /\ ret' = NoValue
    /\ UNCHANGED <<store, values, objs, client, root_, hres, ck, rk, stack, hist, faults>>
    /\ UNCHANGED <<codecVars, pathVars, ulong, peer>>

\* a variant whose loop over the subkeys ends one index early
ReadKeyAdvanceEndsEarly(rk2, log2) ==
    IF Len(rk2.keys) + 1 < rk2.keys_num
    THEN /\ Continue("rk_EnumKey", log2) /\ rk' = rk2 /\ UNCHANGED <<gh, hres, ck, stack>>
    ELSE IF Len(rk2.entries) < rk2.values_num
    THEN /\ Continue("rk_EnumValue", log2) /\ rk' = rk2 /\ UNCHANGED <<gh, hres, ck, stack>>
    ELSE Finish("ok", Ret(rk2.keys, rk2.entries, PyNone, ""), log2, store)

\* the loops of read_key with the locals rk2: the next call, or the return of the snapshot
ReadKeyAdvance(rk2, log2) ==
    IF Len(rk2.keys) < rk2.keys_num
    THEN /\ Continue("rk_EnumKey", log2) /\ rk' = rk2 /\ UNCHANGED <<gh, hres, ck, stack>>
    ELSE IF Len(rk2.entries) < rk2.values_num
    THEN /\ Continue("rk_EnumValue", log2) /\ rk' = rk2 /\ UNCHANGED <<gh, hres, ck, stack>>
    ELSE Finish("ok", Ret(rk2.keys, rk2.entries, PyNone, ""), log2, store)

\* QueryInfoKey(handle): the number of subkeys and of values
read_key_QueryInfoKey ==
    /\ pc = "rk_QueryInfoKey"
    /\ UNCHANGED <<store, values, root_, cur, client, objs>>
    /\ LET key == objs[hres].key
           ev(res) == Ev("QueryInfoKey", hres, key, 0, {}, res, NoObj)
       IN  /\ faults' = faults
           /\ ReadKeyAdvance([keys_num |-> Len(EnumList(store, key, 1)),
                              values_num |-> Len(ValueList(values, key, 1)),
                              key_i |-> 0, keys |-> <<>>, entries |-> <<>>],
                             Append(log, ev("ok")))
    /\ UNCHANGED <<codecVars, pathVars, ulong, peer>>

\* keys.append(EnumKey(handle, key_i))
read_key_EnumKey ==
    /\ pc = "rk_EnumKey"
    /\ UNCHANGED <<store, values, root_, cur, client, objs>>
    /\ LET key == objs[hres].key
           key_i == Len(rk.keys)
           names == EnumList(store, key, 1)
           ev(res) == Ev("EnumKey", hres, key, key_i, {}, res, NoObj)
       IN  /\ faults' = faults
           /\ IF key_i >= Len(names)
              THEN Finish("NoMoreItems", NoValue, Append(log, ev("NoMoreItems")), store)
              ELSE ReadKeyAdvance([rk EXCEPT !.keys = Append(rk.keys, names[key_i + 1]),
                                             !.key_i = key_i],
                                  Append(log, ev("ok")))
    /\ UNCHANGED <<codecVars, pathVars, ulong, peer>>

\* entries.append(RegEntry(... EnumValue(handle, key_i) ...))
read_key_EnumValue ==
    /\ pc = "rk_EnumValue"
    /\ UNCHANGED <<store, values, root_, cur, client, objs>>
    /\ LET key == objs[hres].key
           key_i == Len(rk.entries)
           es == ValueList(values, key, 1)
           ev(res) == Ev("EnumValue", hres, key, key_i, {}, res, NoObj)
       IN  /\ faults' = faults
           /\ IF key_i >= Len(es)
              THEN Finish("NoMoreItems", NoValue, Append(log, ev("NoMoreItems")), store)
              ELSE LET e == es[key_i + 1]
                       d == reg_to_py(e.data, Len(e.data), e.typ, ulong)
                   IN  IF ~d.ok
                       THEN Finish(d.err, NoValue, Append(log, ev("ok")), store)
                       ELSE ReadKeyAdvance(
                                [rk EXCEPT !.entries = Append(rk.entries,
                                    [name |-> e.name, value |-> d.val, type |-> e.typ]),
                                           !.key_i = key_i],
                                Append(log, ev("ok")))
    /\ UNCHANGED <<codecVars, pathVars, ulong, peer>>


(***************************************************************************)
(* create_key: the ancestor search (the loop of lines 141-146, whose       *)
(* _get_handler calls are the steps get_handler and OpenKey), then one     *)
(* CreateKeyEx on the handle found.                                        *)
(***************************************************************************)
create_key(name, key_wow64_32key) ==
    /\ Enter("create_key", name, key_wow64_32key, "", PyNone, REG_SZ)
    /\ log' = <<>> /\ result' = "running" /\ ret' = NoValue
    /\ ck' = CkNone
    /\ IF 0 < Len(name)
       THEN CallGetHandler(Join(Take(name, Len(name) - 0)), KEY_WRITE, "create_key")
       ELSE pc' = "CreateKeyEx" /\ gh' = GhNone
    /\ UNCHANGED <<store, values, objs, client, root_, hres, rk, stack, hist, faults>>
    /\ UNCHANGED <<codecVars, pathVars, ulong, peer>>

\* a variant that cuts the tail one segment later
CreateKeyTailShort(sub_keys, i) == Join(Drop(sub_keys, Len(sub_keys) - i + 1))

\* create_key, lines 147-148: the text after the prefix that opened
CreateKeyTail(sub_keys, i) ==
    LET before_index == Len(sub_keys) - i
    IN  Join(Drop(sub_keys, before_index))

\* create_key, line 153: access=get_access_key(KEY_WRITE)
CreateKeyAccess(key_wow64_32key) == get_access_key(KEY_WRITE, FALSE)

\* CreateKeyEx(key=handler, sub_key=tail, reserved=0, access=...)
CreateKeyEx ==
    /\ pc = "CreateKeyEx"
    /\ UNCHANGED <<values, root_, cur, client>>
    /\ LET tail == CreateKeyTail(cur.key, ck.i)
           access == CreateKeyAccess(cur.view)
           id == Len(objs) + 1
       IN  IF ck.handler = NoObj
           THEN /\ Finish("TypeError", NoValue, log, store)
                /\ UNCHANGED <<store, objs, faults>>
           ELSE LET base == objs[ck.handler].key
                    key == Resolve(base, tail)
                    ev(res, out) == Ev("CreateKeyEx", ck.handler, tail, 0, access, res, out)
                IN  \E deny \in DenyChoices :
                       IF deny
                       THEN /\ Finish("AccessDenied", NoValue,
                                      Append(log, ev("AccessDenied", NoObj)), store)
                            /\ faults' = faults + 1
                            /\ UNCHANGED <<store, objs>>
                       ELSE /\ store' = CreateChain(store, base, key)
                            /\ objs' = Append(objs, HandleObj("node", key, id))
                            /\ faults' = faults
                            /\ Finish("ok", NoValue, Append(log, ev("ok", id)),
                                      CreateChain(store, base, key))
    /\ UNCHANGED <<codecVars, pathVars, ulong, peer>>

(***************************************************************************)
(* delete_key: the parent is opened, DeleteKey(handle, key_name).          *)
(* delete_key is a public operation and the last call of delete_key_tree.  *)
(***************************************************************************)
\* a variant in which delete_key opens the parent with read access
EnterDeleteKeyReading(name, log2, stack2) ==
    LET parts == RSplitOnce(name)
    IN  IF Len(parts) # 2
        THEN Finish("ValueError", NoValue, log2, store)
        ELSE /\ CallGetHandler(parts[1], KEY_READ, "DeleteKey")
             /\ log' = log2 /\ result' = "running" /\ ret' = NoValue
             /\ stack' = stack2
             /\ hres' = NoObj
             /\ UNCHANGED <<ck, rk, hist>>

\* delete_key, line 161: parental, key_name = name.rsplit(sep="\\", maxsplit=1)
EnterDeleteKey(name, log2, stack2) ==
    LET parts == RSplitOnce(name)
    IN  IF Len(parts) # 2
        THEN Finish("ValueError", NoValue, log2, store)
        ELSE /\ CallGetHandler(parts[1], KEY_WRITE, "DeleteKey")
             /\ log' = log2 /\ result' = "running" /\ ret' = NoValue
             /\ stack' = stack2
             /\ hres' = NoObj
             /\ UNCHANGED <<ck, rk, hist>>

delete_key(name) ==
    /\ Enter("delete_key", name, FALSE, "", PyNone, REG_SZ)
    /\ EnterDeleteKey(name, <<>>, <<>>)
    /\ UNCHANGED <<store, values, objs, client, root_, faults>>
    /\ UNCHANGED <<codecVars, pathVars, ulong, peer>>

\* the name argument of the running delete_key
DeleteKeyName == IF stack # <<>> THEN stack[Len(stack)].name ELSE cur.key

\* delete_key returns: to the loop of the calling delete_key_tree, or to the caller
DeleteKeyReturn(log2, store2) ==
    IF Len(stack) > 1
    THEN /\ Continue("dkt_loop", log2)
         /\ stack' = Take(stack, Len(stack) - 1)
         /\ hres' = NoObj
         /\ UNCHANGED <<gh, ck, rk>>
    ELSE Finish("ok", NoValue, log2, store2)

\* RegDeleteKeyW: the key must exist and have no subkey
DeleteKeyResult(st, key) ==
    IF key \notin st THEN "NotFound"
    ELSE IF ChildNames(st, key) # {} THEN "NotEmpty"
    ELSE "ok"

DeleteKey ==
    /\ pc = "DeleteKey"
    /\ UNCHANGED <<root_, cur, client, objs>>
    /\ LET key_name == RSplitOnce(DeleteKeyName)[2]
           key == Resolve(objs[hres].key, key_name)
           res == DeleteKeyResult(store, key)
           ev(r) == Ev("DeleteKey", hres, key, 0, {}, r, NoObj)
       IN  \E deny \in DenyChoices :
              IF deny
              THEN /\ Finish("AccessDenied", NoValue, Append(log, ev("AccessDenied")), store)
                   /\ faults' = faults + 1
                   /\ UNCHANGED <<store, values>>
              ELSE /\ faults' = faults
                   /\ IF res # "ok"
                      THEN /\ Finish(res, NoValue, Append(log, ev(res)), store)
                           /\ UNCHANGED <<store, values>>
                      ELSE /\ store' = store \ {key}
                           /\ values' = {e \in values : e.key # key}
                           /\ DeleteKeyReturn(Append(log, ev("ok")), store \ {key})
    /\ UNCHANGED <<codecVars, pathVars, ulong, peer>>

(***************************************************************************)
(* delete_key_tree: one frame of stack per running call.                   *)
(***************************************************************************)
delete_key_tree(name) ==
    /\ Enter("delete_key_tree", name, FALSE, "", PyNone, REG_SZ)
    /\ CallGetHandler(name, KEY_READ, "dkt_QueryInfoKey")
    /\ log' = <<>> /\ result' = "running" /\ ret' = NoValue
    /\ UNCHANGED <<store, values, objs, client, root_, hres, ck, rk, stack, hist, faults>>
    /\ UNCHANGED <<codecVars, pathVars, ulong, peer>>

\* keys_num, values_num, modify = QueryInfoKey(handle)
delete_key_tree_QueryInfoKey ==
    /\ pc = "dkt_QueryInfoKey"
    /\ UNCHANGED <<store, values, root_, cur, client, objs>>
    /\ LET key == objs[hres].key
           name == IF stack = <<>> THEN cur.key ELSE stack[Len(stack)].child
           ev(res) == Ev("QueryInfoKey", hres, key, 0, {}, res, NoObj)
       IN  /\ faults' = faults
           /\ Continue("dkt_loop", Append(log, ev("ok")))
           /\ stack' = Append(stack, [name |-> name, handle |-> hres,
                                      keys_num |-> Len(EnumList(store, key, 1)),
                                      key_i |-> 0, child |-> <<>>])
           /\ hres' = NoObj
           /\ UNCHANGED <<gh, ck, rk>>
    /\ UNCHANGED <<codecVars, pathVars, ulong, peer>>

\* a variant that never enters the loop over the subkeys
DeleteKeyTreeLoopsNever(frame) == FALSE

\* a variant whose loop ends after the first subkey
DeleteKeyTreeLoopsOnce(frame) == frame.key_i < 1 /\ frame.key_i < frame.keys_num

\* line 172: the loop goes on while key_i is in range(0, keys_num)
DeleteKeyTreeLoops(frame) == frame.key_i < frame.keys_num

\* key = EnumKey(handle, key_i); self.delete_key_tree(f"{name}\\{key}", key_wow64_32key)
delete_key_tree_EnumKey ==
    /\ pc = "dkt_loop"
    /\ DeleteKeyTreeLoops(stack[Len(stack)])
    /\ UNCHANGED <<store, values, root_, cur, client, objs>>
    /\ LET frame == stack[Len(stack)]
           key == objs[frame.handle].key
           names == EnumList(store, key, 1)
           ev(res) == Ev("EnumKey", frame.handle, key, frame.key_i, {}, res, NoObj)
       IN  /\ faults' = faults
           /\ IF frame.key_i >= Len(names)
              THEN Finish("NoMoreItems", NoValue, Append(log, ev("NoMoreItems")), store)
              ELSE /\ CallGetHandler(frame.name \o <<names[frame.key_i + 1]>>,
                                     KEY_READ, "dkt_QueryInfoKey")
                   /\ log' = Append(log, ev("ok"))
                   /\ stack' = [stack EXCEPT ![Len(stack)] =
                                  [frame EXCEPT !.key_i = frame.key_i + 1,
                                                !.child = frame.name \o <<names[frame.key_i + 1]>>]]
                   /\ UNCHANGED <<result, ret, hist, hres, ck, rk>>
    /\ UNCHANGED <<codecVars, pathVars, ulong, peer>>

\* handle.Close(); self.delete_key(name, key_wow64_32key)
delete_key_tree_Close ==
    /\ pc = "dkt_loop"
    /\ ~DeleteKeyTreeLoops(stack[Len(stack)])
    /\ UNCHANGED <<store, values, root_, cur, client, faults>>
    /\ LET frame == stack[Len(stack)]
       IN  IF CloseResult(frame.handle) # "ok"
           THEN /\ Finish(CloseResult(frame.handle), NoValue, Append(log, CloseEv(frame.handle)), store)
                /\ UNCHANGED objs
           ELSE /\ objs' = ObjsAfterClose(objs, frame.handle)
                /\ EnterDeleteKey(frame.name, Append(log, CloseEv(frame.handle)), stack)
    /\ UNCHANGED <<codecVars, pathVars, ulong, peer>>

(***************************************************************************)
(* WinRegistry.close, and the finalizer of the handle objects.             *)
(***************************************************************************)
\* close() while fewer than limit calls of it have been made
CloseCall(limit) ==
    /\ pc = "idle"
    /\ Closes < limit
    /\ cur' = [CurNone EXCEPT !.op = "close", !.store = store]
    /\ ret' = NoValue
    /\ hist' = Append(hist, [op |-> "close", key |-> <<>>, view |-> FALSE,
                             res |-> IF Truthy(client) THEN CloseResult(client) ELSE "ok",
                             connects |-> 0, store |-> store])
    /\ IF Truthy(client)
       THEN /\ objs' = ObjsAfterClose(objs, client)
            /\ log' = <<CloseEv(client)>>
            /\ result' = CloseResult(client)
       ELSE /\ UNCHANGED objs
            /\ log' = <<>>
            /\ result' = "ok"
    /\ UNCHANGED <<store, values, client, root_, pc, gh, hres, ck, rk, stack, faults>>
    /\ UNCHANGED <<codecVars, pathVars, ulong, peer>>

close == CloseCall(MaxCloses)

\* close() called again and again
close_repeated == CloseCall(MaxCalls)

\* the open handle objects nothing refers to any more, between two operations
Garbage == {o \in 1..Len(objs) : o # client /\ objs[o].val # Closed}

\* PyHKEY.__del__: if self.hkey: self.Close(); when it runs is up to the interpreter
Finalize ==
    /\ pc = "idle"
    /\ Garbage # {}
    /\ objs' = [o \in 1..Len(objs) |-> IF o \in Garbage THEN [objs[o] EXCEPT !.val = Closed] ELSE objs[o]]
    /\ UNCHANGED <<store, values, client, root_, pc, cur, gh, hres, ck, rk, stack,
                   log, result, ret, hist, faults>>
    /\ UNCHANGED <<codecVars, pathVars, ulong, peer>>


(***************************************************************************)
(* The registry client: a store, one WinRegistry instance, and the calls   *)
(* of its public operations one after the other.                           *)
(***************************************************************************)
CodecIdle ==
    /\ cv = PyNone
    /\ ct = REG_SZ
    /\ cenc = EncErr("")
    /\ cdec = DecErr("")
    /\ cphase = "off"
    /\ ctail = ""

PathIdle ==
    /\ ptext = <<"">>
    /\ pres = ParseErr("")
    /\ pphase = "off"

Init ==
    /\ store \in InitStores
    /\ values = InitValues
    /\ objs = <<>>
    /\ client = NoObj
    /\ root_ = "None"
    /\ pc = "idle"
    /\ cur = CurNone
    /\ gh = GhNone
    /\ hres = NoObj
    /\ ck = CkNone
    /\ rk = RkNone
    /\ stack = <<>>
    /\ log = <<>>
    /\ result = "none"
    /\ ret = NoValue
    /\ hist = <<>>
    /\ faults = 0
    /\ ulong = 4
    /\ CodecIdle
    /\ PathIdle
    /\ peer = PeerNone

Next ==
    \/ \E k \in KeyTexts : read_key(k)
    \/ \E k \in EntryKeyTexts, n \in ValueNames : read_entry(k, n)
    \/ \E k \in EntryKeyTexts, n \in ValueNames, w \in WriteInputs : write_entry(k, n, w.val, w.typ)
    \/ \E k \in EntryKeyTexts, n \in ValueNames : delete_entry(k, n)
    \/ \E k \in KeyTexts, b \in BOOLEAN : create_key(k, b)
    \/ \E k \in KeyTexts : delete_key(k)
    \/ \E k \in KeyTexts : delete_key_tree(k)
    \/ get_handler
    \/ OpenKey
    \/ QueryValueEx
    \/ SetValueEx
    \/ DeleteValue
    \/ read_key_QueryInfoKey
    \/ read_key_EnumKey
    \/ read_key_EnumValue
    \/ CreateKeyEx
    \/ DeleteKey
    \/ delete_key_tree_QueryInfoKey
    \/ delete_key_tree_EnumKey
    \/ delete_key_tree_Close
    \/ close
    \/ Finalize

Spec == Init /\ [][Next]_vars

(***************************************************************************)
(* The codec on its own: a value and a type are drawn, py_to_reg encodes   *)
(* the value and reg_to_py decodes the buffer with its length as size (as  *)
(* SetValueEx and QueryValueEx pass them); or reg_to_py decodes the bytes  *)
(* of a string followed by one of the terminator conventions.              *)
(***************************************************************************)
Units == {65, 233, 256, 20013}

Strings == SeqsUpTo(Units, MaxStrLen)

ListElems == {PyStr(<<>>), PyStr(<<65>>), PyInt(<<1>>)}

Lists == SeqsUpTo(ListElems, MaxListLen)

Ints == {<<>>, <<1>>, <<0, 1>>, <<65535, 65535>>, <<0, 0, 1>>}

ByteStrings == SeqsUpTo({0, 65}, MaxStrLen)

PyValues == {PyNone} \cup {PyInt(n) : n \in Ints} \cup {PyStr(u) : u \in Strings}
            \cup {PyList(l) : l \in Lists} \cup {PyBytes(b) : b \in ByteStrings}

Tails == [none |-> <<>>, terminator |-> <<0, 0>>, padded |-> <<0, 0, 0>>, twice |-> <<0, 0, 0, 0>>]

RegIdle ==
    /\ store = {}
    /\ values = {}
    /\ objs = <<>>
    /\ client = NoObj
    /\ root_ = "None"
    /\ pc = "off"
    /\ cur = CurNone
    /\ gh = GhNone
    /\ hres = NoObj
    /\ ck = CkNone
    /\ rk = RkNone
    /\ stack = <<>>
    /\ log = <<>>
    /\ result = "none"
    /\ ret = NoValue
    /\ hist = <<>>
    /\ faults = 0

CodecInit ==
    /\ RegIdle
    /\ cv \in PyValues
    /\ ct \in ValueTypes
    /\ ulong \in {4, 8}
    /\ cenc = EncErr("")
    /\ cdec = DecErr("")
    /\ cphase = "input"
    /\ ctail = ""
    /\ PathIdle
    /\ peer = PeerNone

\* buf = py_to_reg(value, value_type)
Encode ==
    /\ cphase = "input"
    /\ cenc' = py_to_reg(cv, ct, ulong)
    /\ cphase' = "encoded"
    /\ UNCHANGED <<cv, ct, cdec, ctail>>
    /\ UNCHANGED <<regVars, pathVars, ulong, peer>>

\* reg_to_py(buf, buf_size, typ) of the buffer py_to_reg made
Decode ==
    /\ cphase = "encoded"
    /\ cenc.ok
    /\ cdec' = reg_to_py(cenc.buf, Len(cenc.buf), ct, ulong)
    /\ cphase' = "decoded"
    /\ UNCHANGED <<cv, ct, cenc, ctail>>
    /\ UNCHANGED <<regVars, pathVars, ulong, peer>>

\* reg_to_py of the UTF-16-LE bytes of a string followed by a tail
DecodeTail(t) ==
    /\ cphase = "input"
    /\ cv.k = "unicode"
    /\ ct \in {REG_SZ, REG_EXPAND_SZ}
    /\ cenc' = EncOk(utf16(cv.u) \o Tails[t])
    /\ cdec' = reg_to_py(utf16(cv.u) \o Tails[t], Len(utf16(cv.u) \o Tails[t]), ct, ulong)
    /\ cphase' = "lenient"
    /\ ctail' = t
    /\ UNCHANGED <<cv, ct>>
    /\ UNCHANGED <<regVars, pathVars, ulong, peer>>

CodecNext ==
    \/ Encode
    \/ Decode
    \/ \E t \in DOMAIN Tails : DecodeTail(t)

CodecSpec == CodecInit /\ [][CodecNext]_vars

(***************************************************************************)
(* parse_path on its own: a path text is drawn, _get_handler parses it     *)
(* (line 41) and, when parse_path returned, connects to the root (line 44).*)
(***************************************************************************)
\* root tokens: aliases, canonical names, names winreg does not have, none
PathRootTokens == {"HKLM", "hkcu", "HKEY_LOCAL_MACHINE", "HKEY_CURRENT_USER", "HKEY_BAD", "BAD", ""}

\* the texts: a root token alone, or followed by separators and segments
PathTexts == {<<r>> \o p : r \in PathRootTokens, p \in SeqsUpTo({"A", "B", ""}, MaxDepth)}

PathInit ==
    /\ RegIdle
    /\ CodecIdle
    /\ ulong = 4
    /\ ptext \in PathTexts
    /\ pres = ParseErr("")
    /\ pphase = "input"
    /\ peer = PeerNone

\* root, path = parse_path(key)
ParsePath ==
    /\ pphase = "input"
    /\ pres' = parse_path(ptext)
    /\ pphase' = "parsed"
    /\ UNCHANGED <<ptext, regVars, codecVars, ulong, peer>>

\* self._client = ConnectRegistry(self.host, root), reached when parse_path returned
PathConnect ==
    /\ pphase = "parsed"
    /\ pres.ok
    /\ pphase' = "connected"
    /\ UNCHANGED <<ptext, pres, regVars, codecVars, ulong, peer>>

PathNext ==
    \/ ParsePath
    \/ PathConnect

PathSpec == PathInit /\ [][PathNext]_vars

(***************************************************************************)
(* One PyHKEY object on its own: the handle OpenKey or ConnectRegistry     *)
(* returned, and the calls of Close and Detach on it, until the            *)
(* interpreter runs __del__.  objs[1] is the object, log the RegCloseKey   *)
(* calls, hist the method calls and how each ended.                        *)
(***************************************************************************)
HandleCall(op, res) ==
    [op |-> op, key |-> objs[1].key, view |-> FALSE, res |-> res, connects |-> 0, store |-> store]

HandleInit ==
    /\ store = {}
    /\ values = {}
    /\ objs \in {<<HandleObj("node", <<LM, "A">>, 1)>>, <<HandleObj("conn", <<LM>>, 1)>>}
    /\ client = NoObj
    /\ root_ = "None"
    /\ pc = "handle"
    /\ cur = CurNone
    /\ gh = GhNone
    /\ hres = NoObj
    /\ ck = CkNone
    /\ rk = RkNone
    /\ stack = <<>>
    /\ log = <<>>
    /\ result = "none"
    /\ ret = NoValue
    /\ hist = <<>>
    /\ faults = 0
    /\ ulong = 4
    /\ CodecIdle
    /\ PathIdle
    /\ peer = PeerNone

\* PyHKEY.Close: wincall(RegCloseKey(self.hkey)); self.hkey = 0
HandleClose ==
    /\ pc = "handle"
    /\ Len(hist) < MaxCalls
    /\ log' = Append(log, CloseEv(1))
    /\ objs' = ObjsAfterClose(objs, 1)
    /\ result' = CloseResult(1)
    /\ hist' = Append(hist, HandleCall("Close", CloseResult(1)))
    /\ UNCHANGED <<store, values, client, root_, pc, cur, gh, hres, ck, rk, stack, ret, faults>>
    /\ UNCHANGED <<codecVars, pathVars, ulong, peer>>

\* PyHKEY.Detach: hkey = self.hkey; self.hkey = 0; return hkey
HandleDetach ==
    /\ pc = "handle"
    /\ Len(hist) < MaxCalls
    /\ objs' = [objs EXCEPT ![1].val = Closed]
    /\ result' = "ok"
    /\ hist' = Append(hist, HandleCall("Detach", "ok"))
    /\ UNCHANGED <<store, values, client, root_, pc, cur, gh, hres, ck, rk, stack, log, ret, faults>>
    /\ UNCHANGED <<codecVars, pathVars, ulong, peer>>

\* PyHKEY.__del__: if self.hkey: try: self.Close() except: pass
HandleDel ==
    /\ pc = "handle"
    /\ pc' = "collected"
    /\ IF objs[1].val # Closed
       THEN /\ log' = Append(log, CloseEv(1))
            /\ objs' = ObjsAfterClose(objs, 1)
       ELSE UNCHANGED <<log, objs>>
    /\ result' = "ok"
    /\ hist' = Append(hist, HandleCall("__del__", "ok"))
    /\ UNCHANGED <<store, values, client, root_, cur, gh, hres, ck, rk, stack, ret, faults>>
    /\ UNCHANGED <<codecVars, pathVars, ulong, peer>>

\* "with handle: block", the block ending by return ("ok") or by an exception.
\* PyHKEY.__exit__(*exc_info) has no parameter self: self.Close() looks up a
\* global of that name and raises NameError, whatever the block did; no
\* RegCloseKey is made.
HandleExit ==
    /\ pc = "handle"
    /\ Len(hist) + 1 < MaxCalls
    /\ \E block \in {"ok", "BlockError"} :
          hist' = hist \o <<HandleCall("with", block), HandleCall("__exit__", "NameError")>>
    /\ result' = "NameError"
    /\ UNCHANGED <<store, values, objs, client, root_, pc, cur, gh, hres, ck, rk, stack, log, ret, faults>>
    /\ UNCHANGED <<codecVars, pathVars, ulong, peer>>

HandleNext ==
    \/ HandleClose
    \/ HandleExit
    \/ HandleDetach
    \/ HandleDel

HandleSpec == HandleInit /\ [][HandleNext]_vars

(***************************************************************************)
(* One WinRegistry instance whose close() is called up to MaxCalls times,  *)
(* before, between and after read_key calls.                               *)
(***************************************************************************)
CloseKeyTexts == {<<"HKLM", "A">>, <<"hkcu", "A">>}

CloseNext ==
    \/ \E k \in CloseKeyTexts : read_key(k)
    \/ get_handler
    \/ OpenKey
    \/ read_key_QueryInfoKey
    \/ read_key_EnumKey
    \/ read_key_EnumValue
    \/ close_repeated
    \/ Finalize

CloseSpec == Init /\ [][CloseNext]_vars

(***************************************************************************)
(* A block "with WinRegistry() as client: client.read_entry(...)", as the  *)
(* keywords run it.  WinRegistry.__exit__: self.close(), and then a bare   *)
(* raise when the block ended by an exception.  The store may refuse the   *)
(* RegCloseKey of the connection; PyHKEY.Close then raises before it       *)
(* clears hkey, and nothing in close or __exit__ catches that.             *)
(***************************************************************************)
WithExit ==
    /\ pc = "idle"
    /\ cur.op \notin {"", "close", "__exit__"}
    /\ \E deny \in (IF Truthy(client) THEN DenyChoices ELSE {FALSE}) :
          LET exc_val == result # "ok"
              outcome == IF deny THEN "AccessDenied" ELSE IF exc_val THEN result ELSE "ok"
              ev == Ev("Close", client, objs[client].key, 0, {},
                       IF deny THEN "AccessDenied" ELSE "ok", NoObj)
          IN  /\ cur' = [CurNone EXCEPT !.op = "__exit__", !.store = store]
              /\ result' = outcome
              /\ ret' = IF outcome = "ok" THEN ret ELSE NoValue
              /\ hist' = Append(hist, [op |-> "__exit__", key |-> <<>>, view |-> FALSE,
                                       res |-> outcome, connects |-> 0, store |-> store])
              /\ log' = IF Truthy(client) THEN <<ev>> ELSE <<>>
              /\ objs' = IF Truthy(client) /\ ~deny THEN ObjsAfterClose(objs, client) ELSE objs
              /\ faults' = IF deny THEN faults + 1 ELSE faults
    /\ UNCHANGED <<store, values, client, root_, pc, gh, hres, ck, rk, stack>>
    /\ UNCHANGED <<codecVars, pathVars, ulong, peer>>

WithNext ==
    \/ \E k \in EntryKeyTexts, n \in ValueNames : read_entry(k, n)
    \/ get_handler
    \/ OpenKey
    \/ QueryValueEx
    \/ WithExit

WithSpec == Init /\ [][WithNext]_vars

(***************************************************************************)
(* Two WinRegistry instances on one store, each running create_key, their  *)
(* calls interleaved.  The variables client .. ret are those of the        *)
(* instance that makes the next call and peer holds those of the other;    *)
(* PairSwitch passes the turn.  The store, the handle table and the count  *)
(* of completed operations are common to both.                             *)
(***************************************************************************)
\* the other instance makes the next call: self._client and the locals of the
\* running operation belong to the instance (__init__, lines 31-33)
PairSwitch ==
    /\ peer' = [id |-> 3 - peer.id, pc |-> pc, client |-> client, cur |-> cur, gh |-> gh,
                hres |-> hres, ck |-> ck, log |-> log, result |-> result, ret |-> ret]
    /\ pc' = peer.pc
    /\ client' = peer.client
    /\ cur' = peer.cur
    /\ gh' = peer.gh
    /\ hres' = peer.hres
    /\ ck' = peer.ck
    /\ log' = peer.log
    /\ result' = peer.result
    /\ ret' = peer.ret
    /\ UNCHANGED <<store, values, objs, root_, rk, stack, hist, faults>>
    /\ UNCHANGED <<codecVars, pathVars, ulong>>

PairKeyTexts == {<<"HKLM", "B">>, <<"HKLM", "A", "B">>, <<"HKLM", "A", "B", "A">>}

PairNext ==
    \/ \E k \in PairKeyTexts : create_key(k, FALSE)
    \/ get_handler
    \/ OpenKey
    \/ CreateKeyEx
    \/ PairSwitch

PairSpec == Init /\ [][PairNext]_vars

(***************************************************************************)
(* create_key and delete_key_tree to their end: an operation that has      *)
(* begun makes its next call as long as it has one to make.                *)
(***************************************************************************)
TermStep ==
    \/ get_handler
    \/ OpenKey
    \/ CreateKeyEx
    \/ DeleteKey
    \/ delete_key_tree_QueryInfoKey
    \/ delete_key_tree_EnumKey
    \/ delete_key_tree_Close

TermNext ==
    \/ \E k \in KeyTexts, b \in BOOLEAN : create_key(k, b)
    \/ \E k \in KeyTexts : delete_key_tree(k)
    \/ get_handler
    \/ OpenKey
    \/ CreateKeyEx
    \/ DeleteKey
    \/ delete_key_tree_QueryInfoKey
    \/ delete_key_tree_EnumKey
    \/ delete_key_tree_Close

TermSpec == Init /\ [][TermNext]_vars /\ WF_vars(TermStep)


(***************************************************************************)
(* Properties of the registry client, under Spec.                          *)
(***************************************************************************)

\* the key a path text names: HKLM and hkcu are the roots the inputs use
PathKey(text) == <<IF text[1] = "HKLM" THEN LM ELSE CU>> \o Tail(text)

\* the keys of st at or below key
Subtree(st, key) == {k \in st : Len(k) >= Len(key) /\ Take(k, Len(key)) = key}

IsOpenKey(e) == e.call = "OpenKey"

IsCreateKeyEx(e) == e.call = "CreateKeyEx"

\* the store denied no call of the running (or last) operation
NoDenial == \A i \in 1..Len(log) : log[i].res # "AccessDenied"

\* the operation cur names has ended
Ended(op) == pc = "idle" /\ cur.op = op

\* the i-th completed call is the first operation of the instance
FirstOperation(i) == hist[i].op # "close" /\ \A j \in 1..(i - 1) : hist[j].op = "close"

\* two successful operations, one after the other
Consecutive(i) ==
    /\ i + 1 <= Len(hist)
    /\ hist[i].op # "close" /\ hist[i].res = "ok"
    /\ hist[i + 1].op # "close" /\ hist[i + 1].res = "ok"

\* C1: connection caching. The first two operations of an instance, when their
\* paths have the same root, issue one ConnectRegistry call between them; an
\* operation that follows two such operations with another root issues one.
C1_ConnectionReuse ==
    \A i \in 1..Len(hist) :
        (FirstOperation(i) /\ Consecutive(i) /\ PathKey(hist[i].key)[1] = PathKey(hist[i + 1].key)[1]) =>
            /\ hist[i].connects + hist[i + 1].connects = 1
            /\ (Consecutive(i + 1) /\ PathKey(hist[i + 2].key)[1] # PathKey(hist[i].key)[1]) =>
                   hist[i + 2].connects = 1

\* C2: handle hygiene. After a public operation, ended by return or by an
\* error, and then close(), as many handles have been closed as the successful
\* OpenKey, CreateKeyEx and ConnectRegistry calls made: none is open.
C2_HandleHygiene ==
    (/\ pc = "idle"
     /\ Len(hist) >= 2
     /\ hist[Len(hist)].op = "close"
     /\ hist[Len(hist) - 1].op # "close") =>
        Cardinality({o \in 1..Len(objs) : objs[o].val = Closed}) = Len(objs)

\* C3: delete_key_tree on an existing key, when the store denies no call,
\* returns successfully, and then the key and all its descendants are absent
\* and every other key is as it was.
C3_DeleteTreeRemovesSubtree ==
    (/\ Ended("delete_key_tree")
     /\ PathKey(cur.key) \in cur.store
     /\ NoDenial) =>
        /\ result = "ok"
        /\ store = cur.store \ Subtree(cur.store, PathKey(cur.key))

\* C4: post-order. In delete_key_tree a DeleteKey call for a key is made only
\* after the DeleteKey calls for all its descendants have succeeded, and after
\* the handle opened on the key for reading has been closed.
C4_PostOrder ==
    cur.op = "delete_key_tree" =>
        \A j \in 1..Len(log) :
            log[j].call = "DeleteKey" =>
                /\ \A d \in Subtree(cur.store, log[j].key) \ {log[j].key} :
                       \E i \in 1..(j - 1) :
                           log[i].call = "DeleteKey" /\ log[i].key = d /\ log[i].res = "ok"
                /\ \E i \in 1..(j - 1) :
                       /\ IsOpenKey(log[i]) /\ log[i].res = "ok"
                       /\ log[i].key = log[j].key /\ KEY_READ \subseteq log[i].access
                /\ \A i \in 1..(j - 1) :
                       (/\ IsOpenKey(log[i]) /\ log[i].res = "ok"
                        /\ log[i].key = log[j].key /\ KEY_READ \subseteq log[i].access) =>
                           \E c \in (i + 1)..(j - 1) :
                               log[c].call = "Close" /\ log[c].on = log[i].out /\ log[c].res = "ok"

\* a delete_key_tree that returned after deleting a key below the one named
C4_Witness ==
    /\ Ended("delete_key_tree")
    /\ result = "ok"
    /\ \E i, j \in 1..Len(log) :
           /\ i < j
           /\ log[i].call = "DeleteKey" /\ log[i].res = "ok"
           /\ log[j].call = "DeleteKey" /\ log[j].res = "ok" /\ log[j].key = PathKey(cur.key)

\* C5: ancestor search. create_key opens, for writing, the full path and then
\* each next shorter prefix; an attempt that opens is the last one, all before
\* it ended with NotFound, and one CreateKeyEx call follows, on the handle
\* opened, with the stripped segments joined as sub key.
C5_AncestorSearch ==
    cur.op = "create_key" =>
        LET opens == SelectSeq(log, IsOpenKey)
            creates == SelectSeq(log, IsCreateKeyEx)
            n == Len(opens)
        IN  /\ \A k \in 1..n :
                   /\ opens[k].key = PathKey(Take(cur.key, Len(cur.key) - (k - 1)))
                   /\ KEY_WRITE \subseteq opens[k].access
                   /\ opens[k].res = "ok" =>
                          k = n /\ \A m \in 1..(k - 1) : opens[m].res = "NotFound"
            /\ Len(creates) <= 1
            /\ creates # <<>> =>
                   /\ n >= 1 /\ opens[n].res = "ok"
                   /\ IsCreateKeyEx(log[Len(log)])
                   /\ creates[1].on = opens[n].out
                   /\ creates[1].key = Join(Drop(cur.key, Len(cur.key) - (n - 1)))
            /\ (pc = "idle" /\ n >= 1 /\ opens[n].res = "ok") => Len(creates) = 1

\* a create_key that found the ancestor at the third attempt and returned
C5_Witness ==
    /\ Ended("create_key")
    /\ result = "ok"
    /\ LET opens == SelectSeq(log, IsOpenKey)
           creates == SelectSeq(log, IsCreateKeyEx)
       IN  /\ Len(opens) = 3
           /\ opens[1].res = "NotFound" /\ opens[2].res = "NotFound" /\ opens[3].res = "ok"
           /\ Len(creates) = 1 /\ Len(creates[1].key) = 2

\* the last two completed calls are create_key with the same arguments, the
\* first returned, and the store denied no call of the second
CreatedTwice ==
    /\ pc = "idle"
    /\ Len(hist) >= 2
    /\ hist[Len(hist) - 1].op = "create_key" /\ hist[Len(hist)].op = "create_key"
    /\ hist[Len(hist) - 1].key = hist[Len(hist)].key
    /\ hist[Len(hist) - 1].view = hist[Len(hist)].view
    /\ hist[Len(hist) - 1].res = "ok"
    /\ NoDenial

C7_NoPrefixOpens ==
    (/\ Ended("create_key")
     /\ \A k \in 2..Len(cur.key) : PathKey(Take(cur.key, k)) \notin cur.store
     /\ NoDenial) =>
        /\ result = "NotFound"
        /\ SelectSeq(log, IsCreateKeyEx) = <<>>
        /\ store = cur.store

\* C17: every OpenKey call is made on a connection handle, and that
\* connection is the one of the root of the operation's path; the key it
\* opens lies under that root.
C17_OpenOnConnectionOfRoot ==
    \A i \in 1..Len(log) :
        IsOpenKey(log[i]) =>
            /\ objs[log[i].on].kind = "conn"
            /\ objs[log[i].on].key = <<PathKey(cur.key)[1]>>
            /\ log[i].key[1] = PathKey(cur.key)[1]

\* an operation under HKEY_CURRENT_USER opens its key right after one under
\* HKEY_LOCAL_MACHINE returned, with no close() between them
C17_Witness ==
    /\ pc = "idle"
    /\ Len(hist) = 2
    /\ hist[1].op # "close" /\ hist[1].res = "ok" /\ hist[1].key[1] = "HKLM"
    /\ cur.op # "close" /\ cur.key[1] = "hkcu"
    /\ \E i \in 1..Len(log) : IsOpenKey(log[i]) /\ log[i].res = "ok"

\* C18: in delete_key_tree a call that fails is the last call of the
\* operation: nothing is deleted (or opened, or enumerated) after it, the
\* operation has ended and its outcome is that failure.
C18_TreeDeletionStopsAtFailure ==
    cur.op = "delete_key_tree" =>
        \A i \in 1..Len(log) :
            log[i].res # "ok" =>
                /\ i = Len(log)
                /\ pc = "idle"
                /\ result = log[i].res

\* the deletion of a key two levels below the path was denied; the path, the
\* child above the failed key and another child of the path are still there
C18_Witness ==
    /\ Ended("delete_key_tree")
    /\ result = "AccessDenied"
    /\ log # <<>>
    /\ LET e == log[Len(log)]
           top == PathKey(cur.key)
       IN  /\ e.call = "DeleteKey" /\ e.res = "AccessDenied"
           /\ Len(e.key) = Len(top) + 2 /\ Take(e.key, Len(top)) = top
           /\ top \in store
           /\ Take(e.key, Len(top) + 1) \in store
           /\ \E k \in store : Len(k) = Len(top) + 1 /\ Take(k, Len(top)) = top
                                /\ k # Take(e.key, Len(top) + 1)

\* C19: when delete_key_tree(path) failed because the store denied a call,
\* and is called again right away with the store denying nothing, the second
\* call returns and path with all its remaining descendants is gone, the
\* other keys being as they were.
C19_RetryCompletesDeletion ==
    (/\ Ended("delete_key_tree")
     /\ Len(hist) >= 2
     /\ hist[Len(hist) - 1].op = "delete_key_tree"
     /\ hist[Len(hist) - 1].key = cur.key
     /\ hist[Len(hist) - 1].res = "AccessDenied"
     /\ PathKey(cur.key) \in cur.store
     /\ NoDenial) =>
        /\ result = "ok"
        /\ store = cur.store \ Subtree(cur.store, PathKey(cur.key))

\* the calls delete_key may not make: enumerations and queries
IsEnumeration(e) == e.call \in {"EnumKey", "EnumValue", "QueryInfoKey"}

IsDeleteKey(e) == e.call = "DeleteKey"

\* C20: delete_key(path), the store denying nothing: the only key opened is
\* the parent of path, with write access; at most one DeleteKey call is made,
\* for path; nothing is enumerated.  The outcome is NotFound when the parent
\* or path is absent and NotEmpty when path has subkeys, and a failed call
\* leaves the store as it was.
C20_DeleteKeyLeafOnly ==
    (Ended("delete_key") /\ NoDenial) =>
        LET target == PathKey(cur.key)
            parent == Take(target, Len(target) - 1)
        IN  /\ \A i \in 1..Len(log) :
                   /\ IsOpenKey(log[i]) =>
                          log[i].key = parent /\ log[i].access = get_access_key(KEY_WRITE, cur.view)
                   /\ IsDeleteKey(log[i]) => log[i].key = target
                   /\ ~IsEnumeration(log[i])
            /\ Len(SelectSeq(log, IsDeleteKey)) <= 1
            /\ (~KeyExists(cur.store, parent) \/ target \notin cur.store) => result = "NotFound"
            /\ (target \in cur.store /\ ChildNames(cur.store, target) # {}) => result = "NotEmpty"
            /\ result # "ok" => store = cur.store

IsSetValueEx(e) == e.call = "SetValueEx"

\* C21: no step of write_entry changes the keys of the store, and a step
\* changes no value but the one named, of the key named, which it does with a
\* SetValueEx call that succeeds.  When write_entry ends on a path whose key
\* does not exist, the store denying nothing, its outcome is NotFound and it
\* has made no SetValueEx and no CreateKeyEx call.
C21_WriteEntryCreatesNoKey ==
    [][(cur.op = "write_entry" /\ pc # "idle") =>
          /\ store' = store
          /\ \A e \in (values' \ values) \cup (values \ values') :
                 e.key = PathKey(cur.key) /\ e.name = cur.name
          /\ values' # values =>
                 /\ Len(log') = Len(log) + 1
                 /\ IsSetValueEx(log'[Len(log')]) /\ log'[Len(log')].res = "ok"
          /\ (pc' = "idle" /\ PathKey(cur.key) \notin store /\ NoDenial') =>
                 /\ result' = "NotFound"
                 /\ SelectSeq(log', IsSetValueEx) = <<>>
                 /\ SelectSeq(log', IsCreateKeyEx) = <<>>]_vars

\* a write_entry that set its value, and then one on a missing key that ended
\* with NotFound
C21_Witness ==
    /\ Ended("write_entry")
    /\ Len(hist) = 2
    /\ hist[1].op = "write_entry" /\ hist[1].res = "ok"
    /\ PathKey(cur.key) \notin store
    /\ result = "NotFound"

IsQueryInfoKey(e) == e.call = "QueryInfoKey"

IsEnumKey(e) == e.call = "EnumKey"

IsEnumValue(e) == e.call = "EnumValue"

\* the calls of the running operation on the handle of its key
OnKeyHandle(e) == e.call \notin {"ConnectRegistry", "OpenKey"}

\* C22: the calls read_key makes on the handle of its key are one
\* QueryInfoKey, the first of them, and after it EnumKey and EnumValue calls
\* only; the k-th EnumKey is at index k-1 and the k-th EnumValue at index k-1.
\* When read_key returns, there is one EnumKey per subkey and one EnumValue per
\* value, and the names and entries returned are those of the store in index
\* order.
C22_ReadKeyEnumeration ==
    cur.op = "read_key" =>
        LET calls == SelectSeq(log, OnKeyHandle)
            enumKeys == SelectSeq(log, IsEnumKey)
            enumValues == SelectSeq(log, IsEnumValue)
            key == PathKey(cur.key)
        IN  /\ calls # <<>> => IsQueryInfoKey(calls[1])
            /\ \A i \in 2..Len(calls) : IsEnumKey(calls[i]) \/ IsEnumValue(calls[i])
            /\ \A k \in 1..Len(enumKeys) : enumKeys[k].idx = k - 1
            /\ \A k \in 1..Len(enumValues) : enumValues[k].idx = k - 1
            /\ (pc = "idle" /\ result = "ok") =>
                   /\ Len(SelectSeq(log, IsQueryInfoKey)) = 1
                   /\ Len(enumKeys) = Len(EnumList(store, key, 1))
                   /\ Len(enumValues) = Len(ValueList(values, key, 1))
                   /\ ret.keys = EnumList(store, key, 1)
                   /\ Len(ret.entries) = Len(ValueList(values, key, 1))
                   /\ \A k \in 1..Len(ret.entries) :
                          ret.entries[k].name = ValueList(values, key, 1)[k].name

\* read_key returned the snapshot of a key with two subkeys and a value
C22_Witness ==
    /\ Ended("read_key")
    /\ result = "ok"
    /\ Len(ret.keys) = 2
    /\ Len(ret.entries) = 1
    /\ Len(SelectSeq(log, IsEnumKey)) = 2

\* the call after call i is an OpenKey on a strictly shorter prefix of the key
\* of call i, with nothing but the ConnectRegistry of that attempt between
ShorterOpenFollows(i) ==
    \E j \in (i + 1)..Len(log) :
        /\ IsOpenKey(log[j])
        /\ \A k \in (i + 1)..(j - 1) : log[k].call = "ConnectRegistry"
        /\ Len(log[j].key) < Len(log[i].key)
        /\ log[j].key = Take(log[i].key, Len(log[j].key))

\* C23: a call that fails is the last call of its operation, and the
\* operation ends with that failure.  The one exception is an OpenKey of
\* create_key that ends with NotFound: the operation does not end there, and
\* what follows is an OpenKey on a strictly shorter prefix.
C23_NoRetry ==
    \A i \in 1..Len(log) :
        log[i].res # "ok" =>
            IF cur.op = "create_key" /\ IsOpenKey(log[i]) /\ log[i].res = "NotFound"
            THEN /\ pc = "idle" => i < Len(log)
                 /\ \/ \A k \in (i + 1)..Len(log) : log[k].call = "ConnectRegistry"
                    \/ ShorterOpenFollows(i)
            ELSE /\ i = Len(log)
                 /\ pc = "idle"
                 /\ result = log[i].res

\* C27: create_key on a path none of whose keys exists, the store denying
\* nothing, returns; its one CreateKeyEx call is on the connection of the
\* root with the whole relative path as its tail, and the path exists
\* afterwards.
C27_CreateUnderRoot ==
    (/\ Ended("create_key")
     /\ \A k \in 2..Len(cur.key) : PathKey(Take(cur.key, k)) \notin cur.store
     /\ NoDenial) =>
        /\ result = "ok"
        /\ Len(SelectSeq(log, IsCreateKeyEx)) = 1
        /\ \A i \in 1..Len(log) :
               IsCreateKeyEx(log[i]) =>
                   /\ objs[log[i].on].key = <<PathKey(cur.key)[1]>>
                   /\ log[i].key = Join(Tail(cur.key))
        /\ PathKey(cur.key) \in store

\* C28: delete_key on an existing key without subkeys, the store denying
\* nothing, returns and removes that key and no other, whether the key lies
\* directly under the root or deeper; delete_key_tree on such a key directly
\* under the root ends with the key removed as well.
C28_DeleteKeyRemovesLeaf ==
    LET target == PathKey(cur.key)
        leaf == target \in cur.store /\ ChildNames(cur.store, target) = {}
    IN  /\ (Ended("delete_key") /\ leaf /\ NoDenial) =>
               result = "ok" /\ store = cur.store \ {target}
        /\ (Ended("delete_key_tree") /\ Len(cur.key) = 2 /\ leaf /\ NoDenial) =>
               result = "ok" /\ store = cur.store \ {target}

\* the registry view flags of an access mask
ViewFlags(access) == access \cap (KEY_WOW64_32KEY \cup KEY_WOW64_64KEY)

\* C29: in create_key the access mask of the CreateKeyEx call has the view
\* flag of the operation, the 32-bit one when key_wow64_32key is true and the
\* 64-bit one otherwise, as the masks of its OpenKey calls have.
C29_CreateInTheViewSearched ==
    cur.op = "create_key" =>
        \A i \in 1..Len(log) :
            (IsCreateKeyEx(log[i]) \/ IsOpenKey(log[i])) =>
                ViewFlags(log[i].access) = IF cur.view THEN KEY_WOW64_32KEY ELSE KEY_WOW64_64KEY

\* every key of the store below the first level has its parent in the store
ParentsPresent == \A k \in store : Len(k) > 2 => Take(k, Len(k) - 1) \in store

\* C30: every key of the store has its parent, in every state; and when
\* delete_key_tree makes a DeleteKey call, the key of the call has no subkey
\* at that moment.
C30_NoDeleteAboveChildren ==
    /\ []ParentsPresent
    /\ [][(cur.op = "delete_key_tree" /\ Len(log') = Len(log) + 1 /\ IsDeleteKey(log'[Len(log')])) =>
             ChildNames(store, log'[Len(log')].key) = {}]_vars

\* delete_key_tree failed after it had deleted a subkey: a partly pruned tree
C30_Witness ==
    /\ Ended("delete_key_tree")
    /\ result # "ok"
    /\ \E i \in 1..Len(log) : IsDeleteKey(log[i]) /\ log[i].res = "ok"
    /\ PathKey(cur.key) \in store
    /\ store # cur.store

\* the last completed call before the running (or last) operation was close()
AfterClose == Len(hist) - (IF pc = "idle" THEN 1 ELSE 0) >= 1
              /\ hist[Len(hist) - (IF pc = "idle" THEN 1 ELSE 0)].op = "close"

\* C31: in an operation that follows close(), a ConnectRegistry call comes
\* before the first OpenKey call; and whenever an OpenKey call is made, in
\* any operation, the connection it is made on is open at that moment.
C31_NoOpenOnClosedConnection ==
    /\ []((cur.op \notin {"", "close"} /\ AfterClose) =>
             \A i \in 1..Len(log) :
                 IsOpenKey(log[i]) => \E j \in 1..(i - 1) : log[j].call = "ConnectRegistry")
    /\ [][(Len(log') = Len(log) + 1 /\ IsOpenKey(log'[Len(log')])) =>
             /\ objs[log'[Len(log')].on].kind = "conn"
             /\ objs[log'[Len(log')].on].val # Closed]_vars

\* an operation returned, close() was called, and the next operation opened
\* its key
C31_Witness ==
    /\ pc = "idle"
    /\ Len(hist) = 3
    /\ hist[1].op # "close" /\ hist[1].res = "ok"
    /\ hist[2].op = "close"
    /\ hist[3].res = "ok"
    /\ \E i \in 1..Len(log) : IsOpenKey(log[i]) /\ log[i].res = "ok"


(***************************************************************************)
(* Properties of the codec, under CodecSpec.                               *)
(***************************************************************************)

\* the value is one the type carries: an unsigned 32-bit integer for
\* REG_DWORD, a string for the string family, a list of strings for
\* REG_MULTI_SZ, a non-empty byte string for REG_BINARY
OfType(v, t) ==
    CASE t = REG_DWORD -> v.k = "int" /\ FitsL(v.n, 4)
      [] t \in {REG_SZ, REG_EXPAND_SZ} -> v.k = "unicode"
      [] t = REG_MULTI_SZ -> v.k = "list" /\ \A i \in 1..Len(v.l) : v.l[i].k = "unicode"
      [] t = REG_BINARY -> v.k = "bytes" /\ v.u # <<>>
      [] OTHER -> FALSE

\* C8: round trip. For every supported type t and every value v of that type,
\* py_to_reg(v, t) succeeds and reg_to_py of its buffer gives v back: the
\* empty string, the empty list, [""], lists with "" between non-empty
\* strings and 2^32 - 1 included.
C8_RoundTrip ==
    OfType(cv, ct) =>
        /\ cphase = "encoded" => cenc.ok
        /\ cphase = "decoded" => cdec.ok /\ cdec.val = cv

\* C9: lenient decode. The UTF-16-LE bytes of a string s followed by nothing,
\* by one terminator, by a terminator and a padding byte, or by two
\* terminators decode, under a string type, without error and to s.
C9_LenientDecode ==
    cphase = "lenient" => cdec.ok /\ cdec.val = cv

\* C10: encoding a string of n code units under REG_SZ or REG_EXPAND_SZ gives
\* 2n + 2 bytes: the UTF-16-LE bytes of the string, then two zero bytes.
C10_StringEncodingLength ==
    (cphase = "encoded" /\ cv.k = "unicode" /\ ct \in {REG_SZ, REG_EXPAND_SZ}) =>
        /\ cenc.ok
        /\ Len(cenc.buf) = 2 * Len(cv.u) + 2
        /\ cenc.buf = utf16(cv.u) \o <<0, 0>>

\* C11: encoding None under REG_SZ or REG_EXPAND_SZ succeeds and gives the
\* bytes that encoding the empty string gives.
C11_NoneEncodesAsEmptyString ==
    (cphase = "encoded" /\ cv = PyNone /\ ct \in {REG_SZ, REG_EXPAND_SZ}) =>
        /\ cenc.ok
        /\ cenc.buf = py_to_reg(PyStr(<<>>), ct, ulong).buf

\* the UTF-16-LE bytes of each string of the list, each followed by two zero bytes
RECURSIVE TerminatedElements(_)
TerminatedElements(l) ==
    IF l = <<>> THEN <<>> ELSE utf16(Head(l).u) \o <<0, 0>> \o TerminatedElements(Tail(l))

\* C12: encoding a list of strings under REG_MULTI_SZ gives the bytes of each
\* element followed by two zero bytes, and two zero bytes more at the end (two
\* bytes in all for the empty list); a list with an element that is no string
\* fails and gives no buffer.
C12_StringListEncoding ==
    (cphase = "encoded" /\ cv.k = "list" /\ ct = REG_MULTI_SZ) =>
        IF \A i \in 1..Len(cv.l) : cv.l[i].k = "unicode"
        THEN cenc.ok /\ cenc.buf = TerminatedElements(cv.l) \o <<0, 0>>
        ELSE ~cenc.ok /\ cenc.buf = <<>>

\* the 16-bit limb j of the integer n
LimbOf(n, j) == IF j <= Len(n) THEN n[j] ELSE 0

\* C25: an integer of 0..2^32-1 under REG_DWORD encodes to 4 bytes
\* b0..b3 whose little-endian value is the integer, None encodes like 0,
\* decoding these bytes gives the integer back, and an empty buffer decodes
\* to 0.
C25_DwordLittleEndian ==
    /\ (cphase \in {"encoded", "decoded"} /\ ct = REG_DWORD /\ cv.k = "int" /\ FitsL(cv.n, 4)) =>
           /\ cenc.ok
           /\ Len(cenc.buf) = 4
           /\ cenc.buf[1] + 256 * cenc.buf[2] = LimbOf(cv.n, 1)
           /\ cenc.buf[3] + 256 * cenc.buf[4] = LimbOf(cv.n, 2)
    /\ (cphase \in {"encoded", "decoded"} /\ ct = REG_DWORD /\ cv = PyNone) =>
           cenc.ok /\ cenc.buf = <<0, 0, 0, 0>>
    /\ (cphase = "decoded" /\ ct = REG_DWORD /\ cv.k = "int" /\ FitsL(cv.n, 4)) =>
           cdec.ok /\ cdec.val = PyInt(NormInt(cv.n))
    /\ reg_to_py(<<>>, 0, REG_DWORD, ulong) = DecOk(PyInt(<<>>))


(***************************************************************************)
(* Properties of parse_path, under PathSpec.                               *)
(***************************************************************************)

\* the text has no separator, or nothing after the first separator
Malformed(text) == Len(text) = 1 \/ Tail(text) = <<"">>

\* the root token is a short alias or the canonical name of a root
KnownRootToken(tok) == Upper(tok) \in DOMAIN ShortRootAlias \/ tok \in WinregRoots

\* C13: parse_path fails with the malformed-path error (ValueError) when the
\* text has no separator and when nothing follows the first separator,
\* whatever the root token; no connect call is made for such a text.
C13_MalformedPath ==
    Malformed(ptext) =>
        /\ pphase = "parsed" => ~pres.ok /\ pres.err = "ValueError"
        /\ pphase # "connected"

\* C14: parse_path returns for a well-formed text whose root token is neither
\* an alias nor a canonical root name, keeping the token as it is; the unknown
\* root is left to the connect call.
C14_UnknownRootKept ==
    (pphase = "parsed" /\ ~Malformed(ptext) /\ ~KnownRootToken(ptext[1])) =>
        pres.ok /\ pres.root = ptext[1]

\* the text has an empty token after the root token: two adjacent separators
\* or a separator at the end
HasEmptySegment(text) == \E i \in 2..Len(text) : text[i] = ""

\* C33: a text with an empty segment is rejected by parse_path, and is never
\* the path of a connection and an open call.
C33_NoEmptySegment ==
    HasEmptySegment(ptext) =>
        /\ pphase = "parsed" => ~pres.ok
        /\ pphase # "connected"


(***************************************************************************)
(* Properties of a PyHKEY object, under HandleSpec.                        *)
(***************************************************************************)

\* C15: Close on a handle object that is closed or detached does nothing: the
\* call raises no error, and RegCloseKey is never called with the value of a
\* closed handle, whatever Close, Detach and __del__ calls came before.
C15_CloseOfClosedHandle ==
    /\ \A i \in 1..Len(hist) : hist[i].op = "Close" => hist[i].res = "ok"
    /\ \A j \in 1..Len(log) : log[j].call = "Close" => log[j].res # "InvalidHandle"

\* C26: when a with block on a handle has just been left, the handle is
\* closed, no more than one RegCloseKey has succeeded on it, and the outcome
\* is that of the block: a return, or the exception the block raised.
C26_WithBlockClosesHandle ==
    (hist # <<>> /\ hist[Len(hist)].op = "__exit__") =>
        /\ objs[1].val = Closed
        /\ Cardinality({i \in 1..Len(log) : log[i].call = "Close" /\ log[i].res = "ok"}) <= 1
        /\ result = hist[Len(hist) - 1].res


(***************************************************************************)
(* Properties of WinRegistry.close, under CloseSpec.                       *)
(***************************************************************************)

\* C16: close() never raises, whether the instance never connected, is
\* connected or is closed already; the Close call it makes is on an open
\* connection, and a close() that follows a close() makes none: no
\* connection is closed twice.
C16_CloseIdempotent ==
    /\ \A i \in 1..Len(hist) : hist[i].op = "close" => hist[i].res = "ok"
    /\ cur.op = "close" =>
           /\ result = "ok"
           /\ Len(log) <= 1
           /\ \A j \in 1..Len(log) :
                  log[j].call = "Close" /\ log[j].res = "ok" /\ objs[log[j].on].kind = "conn"
    /\ (cur.op = "close" /\ Len(hist) >= 2 /\ hist[Len(hist) - 1].op = "close") => log = <<>>

\* close() before any operation, and three times after a read_key that returned
C16_Witness ==
    /\ cur.op = "close"
    /\ Len(hist) >= 5
    /\ hist[1].op = "close"
    /\ \E i \in 2..(Len(hist) - 3) :
           /\ hist[i].op = "read_key" /\ hist[i].res = "ok"
           /\ \A j \in (i + 1)..(i + 3) : hist[j].op = "close"


(***************************************************************************)
(* Properties of WinRegistry.__exit__, under WithSpec.                     *)
(***************************************************************************)

\* C24: when the operation of a with block failed, the outcome of the block
\* is the failure of the operation, whether the Close of the connection at
\* the exit succeeded or not.
C24_PrimaryErrorSurvivesExit ==
    (cur.op = "__exit__" /\ hist[Len(hist) - 1].res # "ok") =>
        result = hist[Len(hist) - 1].res


(***************************************************************************)
(* Properties of two instances on one store, under PairSpec.               *)
(***************************************************************************)

\* every OpenKey call of the calls l is made on the connection a
\* ConnectRegistry call of l returned before it
OpensOnOwnConnection(l) ==
    \A i \in 1..Len(l) :
        IsOpenKey(l[i]) =>
            \E j \in 1..(i - 1) : l[j].call = "ConnectRegistry" /\ l[j].out = l[i].on

NoDenialIn(l) == \A i \in 1..Len(l) : l[i].res # "AccessDenied"

\* C32: each instance opens on connections of its own only.  When both
\* instances have run create_key on one path that was missing when the first
\* of them began, the store denying nothing, both calls have returned and the
\* path exists with every key above it.
C32_TwoInstancesCreateOnePath ==
    /\ OpensOnOwnConnection(log)
    /\ OpensOnOwnConnection(peer.log)
    /\ (/\ pc = "idle" /\ peer.pc = "idle"
        /\ cur.op = "create_key" /\ peer.cur.op = "create_key"
        /\ cur.key = peer.cur.key
        /\ PathKey(cur.key) \notin cur.store \/ PathKey(cur.key) \notin peer.cur.store
        /\ NoDenialIn(log) /\ NoDenialIn(peer.log)) =>
           /\ result = "ok"
           /\ peer.result = "ok"
           /\ \A k \in 2..Len(cur.key) : PathKey(Take(cur.key, k)) \in store


(***************************************************************************)
(* Properties of create_key and delete_key_tree, under TermSpec.           *)
(***************************************************************************)

\* the OpenKey calls of the running operation on key, all of them or those
\* with the access given
OpensOf(key) == {i \in 1..Len(log) : IsOpenKey(log[i]) /\ log[i].key = key}

OpensWith(key, access) == {i \in OpensOf(key) : access \subseteq log[i].access}

\* the number of levels of the subtree of key: 1 for a key without subkeys
SubtreeDepth(st, key) ==
    LET depths == {Len(k) - Len(key) + 1 : k \in Subtree(st, key)}
    IN  CHOOSE d \in depths : \A e \in depths : e <= d

\* the delete_key_tree calls that have begun and not returned
TreeFrames ==
    Len(stack) + (IF \/ pc = "dkt_QueryInfoKey"
                     \/ pc \in {"_get_handler", "OpenKey"} /\ gh.ret = "dkt_QueryInfoKey"
                  THEN 1 ELSE 0)

\* an operation that has begun ends
Terminates == (pc # "idle") ~> (pc = "idle")

CreateKeyOpensBounded ==
    cur.op = "create_key" => Len(SelectSeq(log, IsOpenKey)) <= Len(cur.key)

TreeDepthBounded ==
    (cur.op = "delete_key_tree" /\ PathKey(cur.key) \in cur.store) =>
        TreeFrames <= SubtreeDepth(cur.store, PathKey(cur.key))

\* C34 as stated: every operation ends; create_key makes no more OpenKey
\* calls than its path has tokens; delete_key_tree makes no more than one
\* OpenKey call on any key, and no more delete_key_tree calls are running at
\* a time than the subtree has levels.
C34_TerminationAsStated ==
    /\ Terminates
    /\ []CreateKeyOpensBounded
    /\ []TreeDepthBounded
    /\ [](cur.op = "delete_key_tree" =>
             \A k \in cur.store : Cardinality(OpensOf(k)) <= 1)

\* C34, amended: as above, but delete_key_tree opens a key at most once with
\* read access, to enumerate it, and with write access at most once for each
\* subkey the key had, to delete that subkey.
C34_Termination ==
    /\ Terminates
    /\ []CreateKeyOpensBounded
    /\ []TreeDepthBounded
    /\ [](cur.op = "delete_key_tree" =>
             \A k \in cur.store :
                 /\ Cardinality(OpensWith(k, KEY_READ)) <= 1
                 /\ Cardinality(OpensWith(k, KEY_WRITE)) <= Cardinality(ChildNames(cur.store, k)))

\* delete_key_tree returned after removing a key and its subkey: the key was
\* opened once to enumerate it and once more to delete the subkey
C34_Witness ==
    /\ Ended("delete_key_tree")
    /\ result = "ok"
    /\ Cardinality(OpensWith(PathKey(cur.key), KEY_READ)) = 1
    /\ Cardinality(OpensWith(PathKey(cur.key), KEY_WRITE)) = 1
    /\ TreeFrames = 0
    /\ SubtreeDepth(cur.store, PathKey(cur.key)) = 2

====
